---- MODULE Spec2Model ----
(***************************************************************************)
(* Model of the "story" subcommand of ai-story (package story):            *)
(* Execute -> readAbstractAndDetermineTotalChapters ->                     *)
(* initializeStoryStateForResume -> os.OpenFile -> writeInitialStoryHeader *)
(* -> generateStoryChapters.                                               *)
(*                                                                         *)
(* The output file is a sequence of units.  A unit is a record             *)
(* [k, n, run]: k is "Title", "Abstract", "Sep" (the three preamble        *)
(* writes), "H" (a `## Chapter n` header), "W" (a piece of chapter text)   *)
(* or "E" (the "\n\n" that ends a chapter's content); run tells whether    *)
(* the unit was in the file before this run ("old") or written by it       *)
(* ("new").  Model replies to the two counting prompts are character       *)
(* sequences, parsed as the code parses them.                              *)
(*                                                                         *)
(* The module also holds the "abstract" subcommand, the configuration      *)
(* resolver, the abstract file codec, the cost computation of the API      *)
(* client, determineOutputFilePath and the handlers of the web page, each  *)
(* with a specification of its own (SpecConfig, SpecCodec, SpecCost,       *)
(* SpecPath, SpecWeb); SpecLive is Spec with weak fairness of its steps.   *)
(***************************************************************************)
EXTENDS Integers, Sequences, FiniteSets, TLC

(* ----------------------------- bounds ---------------------------------- *)
MaxTotal == 2         \* largest planned chapter count explored
MaxOld == 1           \* most chapters in a pre-existing output file
MaxTextLen == 1       \* longest chapter text of a model response, in units
MaxReplyLen == 2      \* longest reply to a counting prompt, in characters
MaxTokens == 1        \* token count reported by a call that counts any
MaxNeg == 1           \* most negative count explored is -MaxNeg
MaxAbstractLen == 2   \* longest abstract text written to an abstract file
MaxTokenLen == 2      \* longest continuation token written, in bytes
MaxOverThreshold == 1 \* counted tokens explored around the tier threshold
MaxCandidateTokens == 2   \* most output tokens of a priced call
MaxNameLen == 3       \* longest abstract file name, in name parts
MaxParagraphs == 2    \* most paragraphs in the story box of the web page
MaxRequests == 2      \* most generation requests the web page sends

\* largest resume-scan count explored
MaxScan == MaxTotal
\* longest chapter text in a pre-existing output file
MaxOldTextLen == MaxTextLen + 1

(* ------------------------ program constants ---------------------------- *)
maxChapterRetries_Four == 3 + 1
maxChapterRetries == 3
\* prices of the default model in 1e-8 USD per token (0.30 and 2.50 USD/1M)
Gemini25FlashInputPricePerMillion == 30
Gemini25FlashOutputPricePerMillion == 250

(* --------------------------- strings ----------------------------------- *)
Digits == {"0", "1", "2", "3", "4"}
Chars == Digits \cup {"-", "+", " ", "\n", "x"}

DigitVal(c) ==
  CASE c = "0" -> 0 [] c = "1" -> 1 [] c = "2" -> 2 [] c = "3" -> 3
    [] c = "4" -> 4

IsSpace(c) == c \in {" ", "\n"}

RECURSIVE TrimLeft(_)
TrimLeft(s) ==
  IF s /= <<>> /\ IsSpace(Head(s)) THEN TrimLeft(Tail(s)) ELSE s

RECURSIVE TrimRight(_)
TrimRight(s) ==
  IF s /= <<>> /\ IsSpace(s[Len(s)]) THEN TrimRight(SubSeq(s, 1, Len(s) - 1))
  ELSE s

\* strings.TrimSpace
TrimSpace(s) == TrimRight(TrimLeft(s))

\* strings.Split(s, "\n")[0]
RECURSIVE FirstLine(_)
FirstLine(s) ==
  IF s = <<>> \/ Head(s) = "\n" THEN <<>>
  ELSE <<Head(s)>> \o FirstLine(Tail(s))

RECURSIVE DigitsValue(_, _)
DigitsValue(s, acc) ==
  IF s = <<>> THEN acc ELSE DigitsValue(Tail(s), 10 * acc + DigitVal(Head(s)))

AllDigits(s) == s /= <<>> /\ \A j \in 1..Len(s) : s[j] \in Digits

\* strconv.Atoi: an optional sign followed by one or more decimal digits
Atoi(s) ==
  IF s /= <<>> /\ Head(s) \in {"-", "+"}
  THEN IF AllDigits(Tail(s))
       THEN [ok |-> TRUE,
             val |-> IF Head(s) = "-" THEN 0 - DigitsValue(Tail(s), 0)
                     ELSE DigitsValue(Tail(s), 0)]
       ELSE [ok |-> FALSE, val |-> 0]
  ELSE IF AllDigits(s) THEN [ok |-> TRUE, val |-> DigitsValue(s, 0)]
       ELSE [ok |-> FALSE, val |-> 0]

Replies == UNION {[1..n -> Chars] : n \in 0..MaxReplyLen}
\* chapter texts: n words, and one text with white space around a word
ChapterTexts ==
  {[j \in 1..n |-> "w"] : n \in 0..MaxTextLen} \cup {<<" ", "w", "\n">>}
\* the --chapters values and --output values explored
ChapterFlags == {0 - MaxNeg, 0, MaxTotal}
OutputFlags == {"", ".json"}
TokenVals == {0, MaxTokens}      \* counted input tokens (0: counting failed)
OutputTokenVals == {MaxTokens}   \* candidate tokens of a generated answer
\* thought signatures: 0 is the empty one, the answer to the successful
\* call for chapter n carries signature n
NoSignature == 0

\* answers to the abstract generation prompt and their signatures
AbstractTexts == ChapterTexts
AbstractSignatures == {NoSignature, 1}

(* --------------------------- API client -------------------------------- *)
CostOf(inTok, outTok) ==
  inTok * Gemini25FlashInputPricePerMillion
    + outTok * Gemini25FlashOutputPricePerMillion

\* The responses CallGeminiAPI can return when the model may answer with
\* any text of the set texts and signs its answer with sg.  A failed call
\* keeps the counted input tokens but has no text, signature, output tokens
\* or cost.
CallGeminiAPI(texts, sg) ==
  [Err : {TRUE}, GeneratedText : {<<>>}, ThoughtSignature : {NoSignature},
   InputTokens : TokenVals, OutputTokens : {0}, Cost : {0}]
  \cup
  {[Err |-> FALSE, GeneratedText |-> t, ThoughtSignature |-> sg,
    InputTokens |-> a, OutputTokens |-> b, Cost |-> CostOf(a, b)] :
      t \in texts, a \in TokenVals, b \in OutputTokenVals}

\* ChapterCountResult built from a response to a counting prompt
ChapterCountResult(r) ==
  IF r.Err
  THEN [Count |-> 0, InputTokens |-> 0, OutputTokens |-> 0, Cost |-> 0,
        Err |-> "api"]
  ELSE LET countStr == FirstLine(TrimSpace(r.GeneratedText))
           parsed == Atoi(countStr)
       IN IF ~parsed.ok
          THEN [Count |-> 0, InputTokens |-> r.InputTokens,
                OutputTokens |-> r.OutputTokens, Cost |-> r.Cost,
                Err |-> "parse"]
          ELSE [Count |-> parsed.val, InputTokens |-> r.InputTokens,
                OutputTokens |-> r.OutputTokens, Cost |-> r.Cost,
                Err |-> "none"]

CountResponses == CallGeminiAPI(Replies, NoSignature)

getChapterCountFromGeminiForStory ==
  {ChapterCountResult(r) : r \in CountResponses}

getWrittenChapterCountFromGemini ==
  {ChapterCountResult(r) : r \in CountResponses}

(* ----------------------------- pricing --------------------------------- *)
\* prices in 1e-2 USD per million tokens, so that a cost is in 1e-8 USD
Gemini25ProInputPriceLowTierPerMillion == 125
Gemini25ProOutputPriceLowTierPerMillion == 1000
Gemini25ProInputPriceHighTierPerMillion == 250
Gemini25ProOutputPriceHighTierPerMillion == 1500
Gemini3ProPreviewInputPriceLowTierPerMillion == 200
Gemini3ProPreviewOutputPriceLowTierPerMillion == 1200
Gemini3ProPreviewInputPriceHighTierPerMillion == 400
Gemini3ProPreviewOutputPriceHighTierPerMillion == 1800
Gemini25ProPromptTokenThreshold == 200000
Gemini25FlashLiteInputPricePerMillion == 10
Gemini25FlashLiteOutputPricePerMillion == 40

ModelPrices(inputPrice, outputPrice) ==
  [Err |-> FALSE, InputPricePerMillion |-> inputPrice,
   OutputPricePerMillion |-> outputPrice]

\* `return nil, fmt.Errorf(...)`; the caller replaces it by &ModelPrices{}
NoModelPrices ==
  [Err |-> TRUE, InputPricePerMillion |-> 0, OutputPricePerMillion |-> 0]

GetModelPrices_ThresholdExclusive(modelName, inputTokens) ==
  CASE modelName \in {"gemini-2.5-pro", "gemini-1.5-pro", "gemini-pro"} ->
         IF inputTokens < Gemini25ProPromptTokenThreshold
         THEN ModelPrices(Gemini25ProInputPriceLowTierPerMillion,
                          Gemini25ProOutputPriceLowTierPerMillion)
         ELSE ModelPrices(Gemini25ProInputPriceHighTierPerMillion,
                          Gemini25ProOutputPriceHighTierPerMillion)
    [] modelName = "gemini-3-pro-preview" ->
         IF inputTokens < Gemini25ProPromptTokenThreshold
         THEN ModelPrices(Gemini3ProPreviewInputPriceLowTierPerMillion,
                          Gemini3ProPreviewOutputPriceLowTierPerMillion)
         ELSE ModelPrices(Gemini3ProPreviewInputPriceHighTierPerMillion,
                          Gemini3ProPreviewOutputPriceHighTierPerMillion)
    [] modelName = "gemini-2.5-flash" ->
         ModelPrices(Gemini25FlashInputPricePerMillion,
                     Gemini25FlashOutputPricePerMillion)
    [] modelName = "gemini-2.5-flash-lite" ->
         ModelPrices(Gemini25FlashLiteInputPricePerMillion,
                     Gemini25FlashLiteOutputPricePerMillion)
    [] OTHER -> NoModelPrices

GetModelPrices(modelName, inputTokens) ==
  CASE modelName \in {"gemini-2.5-pro", "gemini-1.5-pro", "gemini-pro"} ->
         IF inputTokens <= Gemini25ProPromptTokenThreshold
         THEN ModelPrices(Gemini25ProInputPriceLowTierPerMillion,
                          Gemini25ProOutputPriceLowTierPerMillion)
         ELSE ModelPrices(Gemini25ProInputPriceHighTierPerMillion,
                          Gemini25ProOutputPriceHighTierPerMillion)
    [] modelName = "gemini-3-pro-preview" ->
         IF inputTokens <= Gemini25ProPromptTokenThreshold
         THEN ModelPrices(Gemini3ProPreviewInputPriceLowTierPerMillion,
                          Gemini3ProPreviewOutputPriceLowTierPerMillion)
         ELSE ModelPrices(Gemini3ProPreviewInputPriceHighTierPerMillion,
                          Gemini3ProPreviewOutputPriceHighTierPerMillion)
    [] modelName = "gemini-2.5-flash" ->
         ModelPrices(Gemini25FlashInputPricePerMillion,
                     Gemini25FlashOutputPricePerMillion)
    [] modelName = "gemini-2.5-flash-lite" ->
         ModelPrices(Gemini25FlashLiteInputPricePerMillion,
                     Gemini25FlashLiteOutputPricePerMillion)
    [] OTHER -> NoModelPrices

\* the model names a call is made with; the last one has no prices
ModelNames ==
  {"gemini-2.5-pro", "gemini-1.5-pro", "gemini-pro", "gemini-3-pro-preview",
   "gemini-2.5-flash", "gemini-2.5-flash-lite", "gemini-1.5-flash"}

\* what client.Models.CountTokens answers: an error, or a token count that
\* is small or within MaxOverThreshold of the tier threshold
CountOutcomes ==
  {[Err |-> TRUE, TotalTokens |-> 0]}
  \cup
  {[Err |-> FALSE, TotalTokens |-> n] :
     n \in (0..MaxOverThreshold)
           \cup ((Gemini25ProPromptTokenThreshold - MaxOverThreshold)
                   ..(Gemini25ProPromptTokenThreshold + MaxOverThreshold))}

\* what client.Models.GenerateContent answers: an error, a response without
\* content, or content with or without usage metadata
GenerateOutcomes ==
  {[status |-> st, usage |-> FALSE, CandidatesTokenCount |-> 0] :
     st \in {"error", "empty", "ok"}}
  \cup
  {[status |-> "ok", usage |-> TRUE, CandidatesTokenCount |-> n] :
     n \in 0..MaxCandidateTokens}

\* The response CallGeminiAPI returns for a model name and the answers of
\* the two service calls it makes
GeminiAPIResponse(modelName, count, gen) ==
  LET inputTokens == IF count.Err THEN 0 ELSE count.TotalTokens
      prices == GetModelPrices(modelName, inputTokens)
      modelPrices == IF prices.Err THEN ModelPrices(0, 0) ELSE prices
      outputTokens == IF gen.usage THEN gen.CandidatesTokenCount ELSE 0
  IN IF gen.status /= "ok"
     THEN [Err |-> TRUE, GeneratedText |-> <<>>,
           ThoughtSignature |-> NoSignature, InputTokens |-> inputTokens,
           OutputTokens |-> 0, Cost |-> 0]
     ELSE [Err |-> FALSE, GeneratedText |-> <<"w">>,
           ThoughtSignature |-> NoSignature, InputTokens |-> inputTokens,
           OutputTokens |-> outputTokens,
           Cost |-> inputTokens * modelPrices.InputPricePerMillion
                      + outputTokens * modelPrices.OutputPricePerMillion]

(* ------------------------- output file --------------------------------- *)
Unit(k, n, run) == [k |-> k, n |-> n, run |-> run]

Preamble(run) ==
  <<Unit("Title", 0, run), Unit("Abstract", 0, run), Unit("Sep", 0, run)>>

ChapterHeader(n, run) == <<Unit("H", n, run)>>

\* strings.TrimSpace(chapterText) + "\n\n"
ChapterContent(text, n, run) ==
  LET t == TrimSpace(text)
  IN [j \in 1..Len(t) |-> Unit("W", n, run)] \o <<Unit("E", n, run)>>

\* chapters n..k as an earlier run wrote them, each with len units of text
RECURSIVE OldChapters(_, _, _)
OldChapters(n, k, len) ==
  IF n > k THEN <<>>
  ELSE ChapterHeader(n, "old")
         \o [j \in 1..len |-> Unit("W", n, "old")]
         \o <<Unit("E", n, "old")>>
         \o OldChapters(n + 1, k, len)

\* Contents an output file left by an earlier run can have: the preamble,
\* chapters 1..k, and possibly the bare header of chapter k+1.
ExistingFiles ==
  {Preamble("old") \o OldChapters(1, k, len) :
     k \in 0..MaxOld, len \in 0..MaxOldTextLen}
  \cup
  {Preamble("old") \o OldChapters(1, k, len) \o ChapterHeader(k + 1, "old") :
     k \in 0..MaxOld, len \in 0..MaxOldTextLen}

WriteAt_Rewind(f, off, mode, units) ==
  IF mode = "append" THEN f \o units
  ELSE units \o SubSeq(f, Len(units) + 1, Len(f))

\* (*os.File).Write: with O_APPEND at the end of the file, otherwise at the
\* handle's offset, over whatever is there; the file is never truncated.
WriteAt(f, off, mode, units) ==
  IF mode = "append" THEN f \o units
  ELSE SubSeq(f, 1, off) \o units \o SubSeq(f, off + Len(units) + 1, Len(f))

NewOffset(f, off, mode, units) ==
  IF mode = "append" THEN off ELSE off + Len(units)

(* ------------------------- configuration ------------------------------- *)
DefaultGeminiModel == "gemini-2.5-flash"

\* the --config values explored: flag absent, or a path
ConfigPaths == {"", "gemini.json"}

\* What is at the config path: no readable file, a file that is not JSON,
\* or a JSON object.  A field the object lacks and a field that is ""
\* both unmarshal to "".
ConfigFiles ==
  {[status |-> st, api_key |-> "", model_name |-> "", thinking_level |-> ""] :
     st \in {"unreadable", "malformed"}}
  \cup
  [status : {"ok"}, api_key : {"", "file-key"},
   model_name : {"", "gemini-2.5-pro"}, thinking_level : {"", "high"}]

\* GEMINI_API_KEY: unset, set to "", set to a key
Environments ==
  {[set |-> FALSE, value |-> ""], [set |-> TRUE, value |-> ""],
   [set |-> TRUE, value |-> "env-key"]}

\* os.Getenv
Getenv(e) == IF e.set THEN e.value ELSE ""

\* LoadGeminiConfig: the config and whether reading or parsing failed
LoadGeminiConfig(f) ==
  [Err |-> f.status /= "ok", APIKey |-> f.api_key,
   ModelName |-> f.model_name, ThinkingLevel |-> f.thinking_level]

GeminiConfigDetails(key, model, level, failed) ==
  [APIKey |-> key, ModelName |-> model, ThinkingLevel |-> level,
   Err |-> failed]

\* the API key of a loaded config, the environment as secondary source
ResolveAPIKey_EnvFirst(fileKey, e) ==
  IF Getenv(e) = "" THEN fileKey ELSE Getenv(e)

ResolveAPIKey(fileKey, e) ==
  IF fileKey = "" THEN Getenv(e) ELSE fileKey

\* the model name of a loaded config, the default when it has none
ResolveModelName_AsGiven(name) == name

ResolveModelName(name) ==
  IF name = "" THEN DefaultGeminiModel ELSE name

LoadGeminiConfigWithFallback(configPath, configFile, e) ==
  LET geminiConfig == LoadGeminiConfig(configFile)
      details ==
        IF configPath /= ""
        THEN IF geminiConfig.Err
             THEN IF Getenv(e) = ""
                  THEN GeminiConfigDetails("", "", "", TRUE)
                  ELSE GeminiConfigDetails(Getenv(e), DefaultGeminiModel, "",
                                           FALSE)
             ELSE LET key == ResolveAPIKey(geminiConfig.APIKey, e)
                  IN IF key = ""
                     THEN GeminiConfigDetails("", geminiConfig.ModelName,
                                              geminiConfig.ThinkingLevel, TRUE)
                     ELSE GeminiConfigDetails(
                            key, ResolveModelName(geminiConfig.ModelName),
                            geminiConfig.ThinkingLevel, FALSE)
        ELSE IF Getenv(e) = ""
             THEN GeminiConfigDetails("", "", "", TRUE)
             ELSE GeminiConfigDetails(Getenv(e), DefaultGeminiModel, "", FALSE)
  IN \* final check of the key and the model name
     IF details.Err THEN details
     ELSE IF details.APIKey = "" THEN [details EXCEPT !.Err = TRUE]
     ELSE [details EXCEPT !.ModelName = ResolveModelName(@)]

(* ----------------------- abstract file codec --------------------------- *)
\* File content is a sequence of symbols: the characters of a scalar, and
\* one symbol for each key and punctuation mark of a document.
CodecChars == {"w", "\"", "\\", "\n"}

\* abstract texts and continuation tokens written and read back
CodecTexts == UNION {[1..n -> CodecChars] : n \in 0..MaxAbstractLen}
CodecTokens == 0..MaxTokenLen

\* string(thoughtSignature): a token of n bytes as a string
SignatureString(sg) == [j \in 1..sg |-> "s"]
\* []byte(abstractData.ThoughtSignature)
SignatureBytes(s) == Len(s)

\* the scalar s between double quotes, with its quotes, backslashes and
\* line breaks escaped
RECURSIVE EscapeChars(_)
EscapeChars(s) ==
  IF s = <<>> THEN <<>>
  ELSE (CASE Head(s) = "\"" -> <<"\\", "\"">>
          [] Head(s) = "\\" -> <<"\\", "\\">>
          [] Head(s) = "\n" -> <<"\\", "n">>
          [] OTHER -> <<Head(s)>>) \o EscapeChars(Tail(s))

QuotedScalar(s) == <<"\"">> \o EscapeChars(s) \o <<"\"">>

NoScalar == [ok |-> FALSE, val |-> <<>>, rest |-> <<>>]

\* reads a double-quoted scalar after its opening quote
RECURSIVE ReadQuoted(_, _)
ReadQuoted(s, acc) ==
  IF s = <<>> THEN NoScalar
  ELSE IF Head(s) = "\"" THEN [ok |-> TRUE, val |-> acc, rest |-> Tail(s)]
  ELSE IF Head(s) = "\\"
  THEN IF Len(s) < 2 \/ s[2] \notin {"\"", "\\", "n"} THEN NoScalar
       ELSE ReadQuoted(SubSeq(s, 3, Len(s)),
                       Append(acc, IF s[2] = "n" THEN "\n" ELSE s[2]))
  ELSE IF Head(s) = "\n" THEN NoScalar
  ELSE ReadQuoted(Tail(s), Append(acc, Head(s)))

ReadScalar(s) ==
  IF s /= <<>> /\ Head(s) = "\"" THEN ReadQuoted(Tail(s), <<>>) ELSE NoScalar

\* AbstractOutputFile, and whether unmarshalling gave it
AbstractOutputFile(abstract, sig, ok) ==
  [ok |-> ok, Abstract |-> abstract, ThoughtSignature |-> sig]

NoDocument == AbstractOutputFile(<<>>, <<>>, FALSE)

\* the struct after a field of the document has been stored in it
WithField(data, key, val) ==
  IF key \in {"abstract:", "\"abstract\":"}
  THEN [data EXCEPT !.Abstract = val]
  ELSE IF key \in {"thought_signature:", "\"thought_signature\":"}
  THEN [data EXCEPT !.ThoughtSignature = val]
  ELSE data

\* yaml.Marshal(outputData): a block mapping; thought_signature is left out
\* when empty (omitempty)
YamlMarshal(data) ==
  <<"abstract:", " ">> \o QuotedScalar(data.Abstract) \o <<"\n">>
  \o (IF data.ThoughtSignature = <<>> THEN <<>>
      ELSE <<"thought_signature:", " ">>
           \o QuotedScalar(data.ThoughtSignature) \o <<"\n">>)

\* a JSON object with the same fields, as a user may have written it
JsonMarshal(data) ==
  <<"{", "\"abstract\":">> \o QuotedScalar(data.Abstract)
  \o (IF data.ThoughtSignature = <<>> THEN <<>>
      ELSE <<",", "\"thought_signature\":">>
           \o QuotedScalar(data.ThoughtSignature))
  \o <<"}">>

\* the members of a JSON object after "{" or ","
RECURSIVE JsonMembers(_, _)
JsonMembers(s, data) ==
  IF s = <<>> \/ Head(s) \notin {"\"abstract\":", "\"thought_signature\":",
                                 "\"title\":"}
  THEN NoDocument
  ELSE LET q == ReadScalar(Tail(s))
       IN IF ~q.ok \/ q.rest = <<>> THEN NoDocument
          ELSE IF q.rest = <<"}">> THEN WithField(data, Head(s), q.val)
          ELSE IF Head(q.rest) = ","
          THEN JsonMembers(Tail(q.rest), WithField(data, Head(s), q.val))
          ELSE NoDocument

\* json.Unmarshal(abstractContentBytes, &abstractData)
JsonUnmarshal(s) ==
  IF s /= <<>> /\ Head(s) = "{"
  THEN JsonMembers(Tail(s), AbstractOutputFile(<<>>, <<>>, TRUE))
  ELSE NoDocument

\* the entries of a YAML block mapping
RECURSIVE YamlEntries(_, _)
YamlEntries(s, data) ==
  IF s = <<>> THEN data
  ELSE IF Len(s) < 2 \/ s[2] /= " "
          \/ Head(s) \notin {"abstract:", "thought_signature:", "title:"}
  THEN NoDocument
  ELSE LET q == ReadScalar(SubSeq(s, 3, Len(s)))
       IN IF ~q.ok \/ q.rest = <<>> \/ Head(q.rest) /= "\n" THEN NoDocument
          ELSE YamlEntries(Tail(q.rest), WithField(data, Head(s), q.val))

\* yaml.Unmarshal(abstractContentBytes, &abstractData): an empty document
\* leaves the struct as it is, a flow mapping is read as JSON is
YamlUnmarshal(s) ==
  IF s /= <<>> /\ Head(s) = "{" THEN JsonUnmarshal(s)
  ELSE YamlEntries(s, AbstractOutputFile(<<>>, <<>>, TRUE))

\* strings.ToLower on the extensions explored
ToLower(ext) ==
  CASE ext = ".YAML" -> ".yaml" [] ext = ".Json" -> ".json" [] OTHER -> ext

\* file paths, told apart by their extension
AbstractFilePaths == {".yaml", ".yml", ".json", ".txt", ".YAML", ".Json", ""}

NoFile == [exists |-> FALSE, bytes |-> <<>>]
FileOf(bytes) == [exists |-> TRUE, bytes |-> bytes]

ReadResult(text, sg, failed) ==
  [Err |-> failed, rawAbstractContent |-> text, thoughtSignature |-> sg]

ReadAbstractFile_NoFallback(abstractFilePath, bytes) ==
  LET parsed(abstractData) ==
        ReadResult(abstractData.Abstract,
                   SignatureBytes(abstractData.ThoughtSignature), FALSE)
  IN IF ToLower(abstractFilePath) \in {".yaml", ".yml"}
     THEN parsed(YamlUnmarshal(bytes))
     ELSE IF ToLower(abstractFilePath) = ".json"
     THEN parsed(JsonUnmarshal(bytes))
     ELSE ReadResult(bytes, NoSignature, FALSE)

\* ReadAbstractFile when os.ReadFile returned bytes
ReadAbstractFile(abstractFilePath, bytes) ==
  LET raw == ReadResult(bytes, NoSignature, FALSE)
      parsed(abstractData) ==
        IF ~abstractData.ok THEN raw
        ELSE ReadResult(abstractData.Abstract,
                        SignatureBytes(abstractData.ThoughtSignature), FALSE)
  IN IF ToLower(abstractFilePath) \in {".yaml", ".yml"}
     THEN parsed(YamlUnmarshal(bytes))
     ELSE IF ToLower(abstractFilePath) = ".json"
     THEN parsed(JsonUnmarshal(bytes))
     ELSE raw

\* the bytes WriteAbstractFile hands to os.WriteFile
WriteAbstractFile(outputPath, abstract, thoughtSignature) ==
  YamlMarshal(AbstractOutputFile(abstract, SignatureString(thoughtSignature),
                                 TRUE))

\* the proper prefixes of a content: what a failed write can leave
ProperPrefixes(bytes) == {SubSeq(bytes, 1, n) : n \in 0..(Len(bytes) - 1)}

\* Files a user may have put at the abstract path: plain text, documents in
\* both formats, documents cut short, an empty file.
UserRecords ==
  {AbstractOutputFile(t, SignatureString(sg), TRUE) :
     t \in {<<>>, <<"w">>, <<"w", "\n">>}, sg \in {0, 1}}

UserFiles ==
  {<<>>, <<"w">>, <<"w", "\n", "w">>, <<"title:", " ", "\"", "w", "\"", "\n">>}
  \cup {YamlMarshal(d) : d \in UserRecords}
  \cup {JsonMarshal(d) : d \in UserRecords}
  \cup UNION {ProperPrefixes(YamlMarshal(d)) : d \in UserRecords}
  \cup UNION {ProperPrefixes(JsonMarshal(d)) : d \in UserRecords}

(* --------------------------- output path ------------------------------- *)
\* A path is a sequence of parts: a directory part "dir/" and the parts of
\* the file name.  "Abstract-" and ".YAML" are "abstract-" and ".yaml" in
\* other letter case; "x" is any other text.
NameParts ==
  {"abstract-", "Abstract-", "x", ".json", ".yaml", ".yml", ".txt", ".YAML"}

FileNames == UNION {[1..n -> NameParts] : n \in 1..MaxNameLen}

\* the --abstract values explored: a file here or in another directory
AbstractPaths == FileNames \cup {<<"dir/">> \o n : n \in FileNames}

\* the --output values explored: flag absent, or a path
OutputPathFlags == {<<>>, <<"out">>}

\* time.Now().Format("2006-01-02-15-04-05")
Timestamps == {"t1", "t2"}

\* strings.ToLower
LowerPart(c) ==
  CASE c = "Abstract-" -> "abstract-" [] c = ".YAML" -> ".yaml" [] OTHER -> c

PathToLower(s) == [j \in 1..Len(s) |-> LowerPart(s[j])]

\* strings.HasPrefix(s, prefix) for a prefix of one part
HasPrefix(s, prefix) == s /= <<>> /\ Head(s) = prefix

\* filepath.Base
RECURSIVE Base(_)
Base(path) ==
  IF path /= <<>> /\ Head(path) = "dir/" THEN Base(Tail(path)) ELSE path

\* strings.NewReplacer(old, new).Replace(s): every occurrence
ReplaceAll(s, old, new) ==
  [j \in 1..Len(s) |-> IF s[j] = old THEN new ELSE s[j]]

\* strings.Replace(s, old, new, 1): the first occurrence
RECURSIVE ReplaceFirst(_, _, _)
ReplaceFirst(s, old, new) ==
  IF s = <<>> THEN <<>>
  ELSE IF Head(s) = old THEN <<new>> \o Tail(s)
  ELSE <<Head(s)>> \o ReplaceFirst(Tail(s), old, new)

determineOutputFilePath(abstractFilePath, outputPathFlag, timestamp) ==
  IF outputPathFlag /= <<>> THEN outputPathFlag
  ELSE LET baseName == Base(abstractFilePath)
       IN IF HasPrefix(PathToLower(baseName), "abstract-")
          THEN ReplaceFirst(
                 ReplaceFirst(
                   ReplaceFirst(
                     ReplaceAll(baseName, "abstract-", "fulltext-"),
                     ".json", ".txt"),
                   ".yaml", ".txt"),
                 ".yml", ".txt")
          ELSE <<"fulltext-", timestamp, ".txt">>

\* no path computed
NoPaths ==
  [abstractFilePath |-> <<>>, outputPathFlag |-> <<>>,
   finalOutputPath |-> <<>>]

(* ------------------------------ web page ------------------------------- *)
\* The page as DOMContentLoaded leaves it when localStorage is empty.
\* storyOutput is the story box as a sequence of paragraphs; pending counts
\* the generateParagraph calls waiting for fetch.
NoPage ==
  [apiKey |-> "", storyOutput |-> <<>>, generateBtnDisabled |-> FALSE,
   revertLastParagraphBtnDisabled |-> TRUE, loadingHidden |-> TRUE,
   errorShown |-> FALSE, pending |-> 0, sent |-> 0]

\* contents of the story box: paragraphs the user typed ("p") and paragraphs
\* the model generated ("g"); <<>> is a box that is empty after trim()
Stories == UNION {[1..n -> {"p", "g"}] : n \in 0..MaxParagraphs}

\* what fetch and the parsing of its answer come to: a text, no text, or an
\* exception (network error, HTTP error status, malformed answer)
FetchOutcomes == {"text", "empty", "error"}

(* ----------------------------- state ----------------------------------- *)
VARIABLES
  pc,              \* position in Execute / generateStoryChapters
  err,             \* why the run ended in Fatal ("none" otherwise)
  existing,        \* content of the output file when the run started
  fileExists,      \* whether the output file exists
  file,            \* content of the output file
  opened,          \* whether Execute holds the output file handle
  offset,          \* write offset of the handle
  totalChapters,
  initial,         \* tokens and cost of the planning call (Execute)
  state,           \* StoryProgressState
  i,               \* loop variable of generateStoryChapters
  attempt,         \* loop variable of the retry loop
  chapter,         \* chapterText, chapterSignature, chapter*Tokens,
                   \* chapterCost, chapterGenerationErr
  previousChapterThoughtSignature,
  sentSignature,   \* ThoughtSignature of the last chapter request
  calls,           \* planning and resume-scan calls made so far
  scanErr,         \* Err of the resume-scan result ("skipped": no scan call)
  chapterCalls,    \* model calls made for the current chapter
  generated,       \* chapter numbers generated successfully, in order
  preambleWrites,  \* how many times the preamble was written completely
  command,         \* the subcommand: "abstract", "story"
  configPath,      \* --config
  configFile,      \* what is at the config path
  env,             \* GEMINI_API_KEY
  details,         \* geminiConfigDetails
  chapterCountResult,  \* result of the total-chapter-count extraction
  chapters,        \* --chapters
  numChapters,
  promptChapters,  \* chapter count in the last abstract generation prompt
  abstract,        \* abstract text: generated, or handed to the codec
  signature,       \* its thought signature
  accumulated,     \* accumulated tokens and cost of the abstract command
  abstractCalls,   \* model calls made by the abstract command
  outputPath,      \* --output of the abstract command, path of the codec
  abstractFile,    \* the file at the abstract path
  readBack,        \* what ReadAbstractFile returned
  apiCall,         \* one call of the API client: its inputs, what the
                   \* service answers, and the response it returns
  page,            \* the web page: its controls and pending requests
  paths            \* --abstract, --output and the final output path

storyVars ==
  <<existing, fileExists, file, opened, offset, totalChapters, initial, state,
    i, attempt, chapter, previousChapterThoughtSignature, sentSignature,
    calls, scanErr, chapterCalls, generated, preambleWrites>>

configVars == <<command, configPath, configFile, env, details>>

abstractVars ==
  <<chapters, numChapters, promptChapters, abstract, signature, accumulated,
    abstractCalls>>

codecVars == <<outputPath, abstractFile, readBack>>

apiVars == <<apiCall>>

webVars == <<page>>

pathVars == <<paths>>

vars == <<pc, err, storyVars, configVars, chapterCountResult, abstractVars,
          codecVars, apiVars, webVars, pathVars>>

NoChapter ==
  [Err |-> FALSE, GeneratedText |-> <<>>, ThoughtSignature |-> NoSignature,
   InputTokens |-> 0, OutputTokens |-> 0, Cost |-> 0]

InitialState ==
  [AccumulatedInputTokens |-> 0, AccumulatedOutputTokens |-> 0,
   AccumulatedCost |-> 0, PreviousChapters |-> <<>>,
   ChaptersAlreadyWritten |-> 0, FirstNewChapter |-> 1, FileMode |-> "create"]

NoChapterCount ==
  [Count |-> 0, InputTokens |-> 0, OutputTokens |-> 0, Cost |-> 0,
   Err |-> "skipped"]

NoUsage == [InputTokens |-> 0, OutputTokens |-> 0, Cost |-> 0]

\* no call of the API client under way
NoCall ==
  [ModelName |-> "", count |-> [Err |-> TRUE, TotalTokens |-> 0],
   gen |-> [status |-> "error", usage |-> FALSE, CandidatesTokenCount |-> 0],
   response |-> NoChapter]

\* the story command's variables before it runs, the output file being
\* absent or one of existingFiles
InitStory(existingFiles) ==
  /\ \/ fileExists = FALSE /\ existing = <<>>
     \/ fileExists = TRUE /\ existing \in existingFiles
  /\ file = existing
  /\ opened = FALSE
  /\ offset = 0
  /\ totalChapters = 0
  /\ initial = NoUsage
  /\ state = InitialState
  /\ i = 0
  /\ attempt = 0
  /\ chapter = NoChapter
  /\ previousChapterThoughtSignature = NoSignature
  /\ sentSignature = NoSignature
  /\ calls = [plan |-> 0, scan |-> 0]
  /\ scanErr = "skipped"
  /\ chapterCalls = 0
  /\ generated = <<>>
  /\ preambleWrites = 0

\* the abstract command's variables before it runs
InitAbstract(flags, outputs, files) ==
  /\ chapters \in flags
  /\ outputPath \in outputs
  /\ abstractFile \in files
  /\ numChapters = 0
  /\ promptChapters = 0
  /\ abstract = <<>>
  /\ signature = NoSignature
  /\ accumulated = NoUsage
  /\ abstractCalls = 0
  /\ readBack = ReadResult(<<>>, NoSignature, FALSE)

\* a subcommand about to resolve its configuration from one of configs
InitCommand(configs) ==
  /\ pc = "LoadConfig"
  /\ err = "none"
  /\ \E c \in configs :
       configPath = c[1] /\ configFile = c[2] /\ env = c[3]
  /\ details = GeminiConfigDetails("", "", "", FALSE)
  /\ chapterCountResult = NoChapterCount
  /\ apiCall = NoCall
  /\ page = NoPage
  /\ paths = NoPaths
  /\ \/ /\ command = "story"
        /\ InitStory(ExistingFiles)
        /\ InitAbstract({0}, {""}, {NoFile})
     \/ /\ command = "abstract"
        /\ InitStory({})
        /\ InitAbstract(ChapterFlags, OutputFlags,
                        {NoFile, FileOf(<<"w">>)})

ConfigInputs == ConfigPaths \X ConfigFiles \X Environments

\* the configurations the two commands are run with: no --config, the
\* environment variable unset or holding a key
CommandConfigInputs ==
  {c \in ConfigInputs :
     c[1] = "" /\ c[2].status = "unreadable" /\ c[3].set = (c[3].value /= "")}

Init == InitCommand(CommandConfigInputs)

\* every configuration
InitConfig == InitCommand(ConfigInputs)

\* the codec on its own: a path, a record to write, a file a user may have
\* put at the path
InitCodec ==
  /\ pc = "Codec"
  /\ err = "none"
  /\ command = "codec"
  /\ configPath = "" /\ configFile \in {c \in ConfigFiles : c.status = "unreadable"}
  /\ env = [set |-> FALSE, value |-> ""]
  /\ details = GeminiConfigDetails("", "", "", FALSE)
  /\ chapterCountResult = NoChapterCount
  /\ apiCall = NoCall
  /\ page = NoPage
  /\ paths = NoPaths
  /\ InitStory({})
  /\ outputPath \in AbstractFilePaths
  /\ abstractFile \in {NoFile} \cup {FileOf(b) : b \in UserFiles}
  /\ abstract \in CodecTexts
  /\ signature \in CodecTokens
  /\ chapters = 0 /\ numChapters = 0 /\ promptChapters = 0
  /\ accumulated = NoUsage
  /\ abstractCalls = 0
  /\ readBack = ReadResult(<<>>, NoSignature, FALSE)

\* no subcommand is running: the two commands' variables at rest
InitNoCommand ==
  /\ err = "none"
  /\ configPath = ""
  /\ configFile = [status |-> "unreadable", api_key |-> "", model_name |-> "",
                   thinking_level |-> ""]
  /\ env = [set |-> FALSE, value |-> ""]
  /\ details = GeminiConfigDetails("", "", "", FALSE)
  /\ chapterCountResult = NoChapterCount
  /\ InitStory({})
  /\ InitAbstract({0}, {""}, {NoFile})

\* one call of the API client about to be made: a model name and what the
\* service will answer to the token count and to the generation request
InitCost ==
  /\ pc = "Call"
  /\ command = "api"
  /\ InitNoCommand
  /\ \E m \in ModelNames, c \in CountOutcomes, g \in GenerateOutcomes :
       apiCall = [ModelName |-> m, count |-> c, gen |-> g,
                  response |-> NoChapter]
  /\ page = NoPage
  /\ paths = NoPaths

\* the story command with its flags parsed, about to compute the path of
\* the output file
InitPath ==
  /\ pc = "Path"
  /\ command = "path"
  /\ InitNoCommand
  /\ apiCall = NoCall
  /\ page = NoPage
  /\ \E a \in AbstractPaths, o \in OutputPathFlags :
       paths = [abstractFilePath |-> a, outputPathFlag |-> o,
                finalOutputPath |-> <<>>]

\* the web page after DOMContentLoaded, localStorage holding any API key
\* and any story
InitWeb ==
  /\ pc = "Page"
  /\ command = "web"
  /\ InitNoCommand
  /\ apiCall = NoCall
  /\ paths = NoPaths
  /\ \E k \in {"", "key"}, st \in Stories :
       page = [NoPage EXCEPT !.apiKey = k, !.storyOutput = st,
                             !.revertLastParagraphBtnDisabled = (st = <<>>)]

Fatal(reason) == pc' = "Fatal" /\ err' = reason
(* ---------------------------- Execute ---------------------------------- *)
\* What readAbstractAndDetermineTotalChapters makes of the planning result:
\* the error it returns, or "none"
PlanVerdict_NoZeroCheck(res) ==
  IF res.Err /= "none" THEN "planCall" ELSE "none"

PlanVerdict_IgnoreParse(res) ==
  IF res.Err = "api" THEN "planCall"
  ELSE IF res.Err = "none" /\ res.Count = 0 THEN "zeroChapters"
  ELSE "none"

PlanVerdict(res) ==
  IF res.Err /= "none" THEN "planCall"
  ELSE IF res.Count = 0 THEN "zeroChapters"
  ELSE "none"

\* Execute step 4: read the abstract file, ask the model for the planned
\* number of chapters.
readAbstractAndDetermineTotalChapters ==
  /\ pc = "ReadAbstract"
  /\ \/ /\ Fatal("readAbstract")
        /\ UNCHANGED <<totalChapters, initial, calls, chapterCountResult>>
     \/ \E res \in getChapterCountFromGeminiForStory :
          /\ res.Count <= MaxTotal /\ res.Count >= 0 - MaxNeg
          /\ calls' = [calls EXCEPT !.plan = @ + 1]
          /\ chapterCountResult' = res
          /\ IF PlanVerdict(res) /= "none"
             THEN Fatal(PlanVerdict(res)) /\ UNCHANGED <<totalChapters, initial>>
             ELSE /\ totalChapters' = res.Count
                  /\ initial' = [InputTokens |-> res.InputTokens,
                                 OutputTokens |-> res.OutputTokens,
                                 Cost |-> res.Cost]
                  /\ pc' = "ResumeScan"
                  /\ err' = err
  /\ UNCHANGED <<existing, fileExists, file, opened, offset, state, i,
                 attempt, chapter, previousChapterThoughtSignature,
                 sentSignature, chapterCalls, generated, preambleWrites,
                 scanErr>>
  /\ UNCHANGED <<apiVars, webVars, pathVars>>
  /\ UNCHANGED <<configVars, abstractVars, codecVars>>

\* The StoryProgressState after adding the tokens of one call
AddUsage(st, inTok, outTok, cost) ==
  [st EXCEPT !.AccumulatedInputTokens = @ + inTok,
             !.AccumulatedOutputTokens = @ + outTok,
             !.AccumulatedCost = @ + cost]

ResumeStateFor_KeepCreateMode(res, existingStoryContent) ==
  LET st == AddUsage(InitialState, res.InputTokens, res.OutputTokens, res.Cost)
  IN IF res.Err /= "none" THEN st
     ELSE IF res.Count > 0
     THEN [st EXCEPT !.ChaptersAlreadyWritten = res.Count,
                     !.FirstNewChapter = res.Count + 1,
                     !.PreviousChapters = existingStoryContent]
     ELSE [st EXCEPT !.ChaptersAlreadyWritten = res.Count]

ResumeStateFor_AppendOnZero(res, existingStoryContent) ==
  LET st == AddUsage(InitialState, res.InputTokens, res.OutputTokens, res.Cost)
  IN IF res.Count >= 0
     THEN [st EXCEPT !.ChaptersAlreadyWritten = res.Count,
                     !.FirstNewChapter = res.Count + 1,
                     !.FileMode = "append",
                     !.PreviousChapters = existingStoryContent]
     ELSE [st EXCEPT !.ChaptersAlreadyWritten = res.Count]

ResumeStateFor_NoContext(res, existingStoryContent) ==
  LET st == AddUsage(InitialState, res.InputTokens, res.OutputTokens, res.Cost)
  IN IF res.Err /= "none" THEN st
     ELSE IF res.Count > 0
     THEN [st EXCEPT !.ChaptersAlreadyWritten = res.Count,
                     !.FirstNewChapter = res.Count + 1,
                     !.FileMode = "append"]
     ELSE [st EXCEPT !.ChaptersAlreadyWritten = res.Count]

\* The state initializeStoryStateForResume returns when the file exists,
\* could be read and the scan call returned res
ResumeStateFor(res, existingStoryContent) ==
  LET st == AddUsage(InitialState, res.InputTokens, res.OutputTokens, res.Cost)
  IN IF res.Err /= "none" THEN st
     ELSE IF res.Count > 0
     THEN [st EXCEPT !.ChaptersAlreadyWritten = res.Count,
                     !.FirstNewChapter = res.Count + 1,
                     !.FileMode = "append",
                     !.PreviousChapters = existingStoryContent]
     ELSE [st EXCEPT !.ChaptersAlreadyWritten = res.Count]

\* Execute steps 5-6: resume scan, then the planning call's usage is added
initializeStoryStateForResume ==
  /\ pc = "ResumeScan"
  /\ \/ /\ ~fileExists
        /\ state' = AddUsage(InitialState, initial.InputTokens,
                             initial.OutputTokens, initial.Cost)
        /\ UNCHANGED <<calls, scanErr>>
     \/ /\ fileExists          \* os.ReadFile fails
        /\ state' = AddUsage(InitialState, initial.InputTokens,
                             initial.OutputTokens, initial.Cost)
        /\ UNCHANGED <<calls, scanErr>>
     \/ /\ fileExists
        /\ \E res \in getWrittenChapterCountFromGemini :
             /\ res.Count <= MaxScan /\ res.Count >= 0 - MaxNeg
             /\ state' = AddUsage(ResumeStateFor(res, file),
                                  initial.InputTokens, initial.OutputTokens,
                                  initial.Cost)
             /\ calls' = [calls EXCEPT !.scan = @ + 1]
             /\ scanErr' = res.Err
  /\ pc' = "OpenFile"
  /\ UNCHANGED <<err, existing, fileExists, file, opened, offset,
                 totalChapters, initial, i, attempt, chapter,
                 previousChapterThoughtSignature, sentSignature,
                 chapterCalls, generated, preambleWrites>>
  /\ UNCHANGED <<apiVars, webVars, pathVars>>
  /\ UNCHANGED <<configVars, chapterCountResult, abstractVars, codecVars>>

\* Execute step 7: os.OpenFile(finalOutputPath, state.FileMode, 0644)
OpenOutputFile ==
  /\ pc = "OpenFile"
  /\ \/ Fatal("openFile") /\ UNCHANGED <<fileExists, opened>>
     \/ /\ state.FileMode = "append" => fileExists
        /\ fileExists' = TRUE
        /\ opened' = TRUE
        /\ pc' = "WriteHeader"
        /\ err' = err
  /\ offset' = 0
  /\ UNCHANGED <<existing, file, totalChapters, initial, state, i, attempt,
                 chapter, previousChapterThoughtSignature, sentSignature,
                 calls, chapterCalls, generated, preambleWrites,
                 scanErr>>
  /\ UNCHANGED <<apiVars, webVars, pathVars>>
  /\ UNCHANGED <<configVars, chapterCountResult, abstractVars, codecVars>>

\* Execute step 8.  done = number of the three writes that succeed.
writeInitialStoryHeader ==
  /\ pc = "WriteHeader"
  /\ IF state.ChaptersAlreadyWritten = 0
     THEN \E done \in 0..3 :
            LET units == SubSeq(Preamble("new"), 1, done)
            IN /\ file' = WriteAt(file, offset, state.FileMode, units)
               /\ offset' = NewOffset(file, offset, state.FileMode, units)
               /\ IF done = 3
                  THEN /\ pc' = "StartLoop"
                       /\ err' = err
                       /\ preambleWrites' = preambleWrites + 1
                  ELSE Fatal("writeHeader") /\ UNCHANGED preambleWrites
     ELSE /\ pc' = "StartLoop"
          /\ UNCHANGED <<err, file, offset, preambleWrites>>
  /\ UNCHANGED <<existing, fileExists, opened, totalChapters, initial, state,
                 i, attempt, chapter, previousChapterThoughtSignature,
                 sentSignature, calls, chapterCalls, generated,
                 scanErr>>
  /\ UNCHANGED <<apiVars, webVars, pathVars>>
  /\ UNCHANGED <<configVars, chapterCountResult, abstractVars, codecVars>>

(* ----------------------- generateStoryChapters ------------------------- *)
\* entry: previousChapterThoughtSignature := []byte{}, i := FirstNewChapter-1
StartChapterLoop ==
  /\ pc = "StartLoop"
  /\ i' = state.FirstNewChapter - 1
  /\ previousChapterThoughtSignature' = NoSignature
  /\ pc' = "LoopHead"
  /\ UNCHANGED <<err, existing, fileExists, file, opened, offset,
                 totalChapters, initial, state, attempt, chapter,
                 sentSignature, calls, chapterCalls, generated,
                 preambleWrites,
                 scanErr>>
  /\ UNCHANGED <<apiVars, webVars, pathVars>>
  /\ UNCHANGED <<configVars, chapterCountResult, abstractVars, codecVars>>

ChapterLoopHead_Inclusive ==
  /\ pc = "LoopHead"
  /\ IF i <= totalChapters
     THEN pc' = "Attempt"
     ELSE pc' = "Done"
  /\ UNCHANGED <<err, existing, fileExists, file, opened, offset,
                 totalChapters, initial, state, i, attempt, chapter,
                 previousChapterThoughtSignature, sentSignature, calls,
                 scanErr, chapterCalls, generated, preambleWrites>>
  /\ UNCHANGED <<apiVars, webVars, pathVars>>
  /\ UNCHANGED <<configVars, chapterCountResult, abstractVars, codecVars>>

\* loop condition i < totalChapters; when it fails the function returns nil
\* and Execute reports success
ChapterLoopHead ==
  /\ pc = "LoopHead"
  /\ IF i < totalChapters
     THEN pc' = "Attempt"
     ELSE pc' = "Done"
  /\ UNCHANGED <<err, existing, fileExists, file, opened, offset,
                 totalChapters, initial, state, i, attempt, chapter,
                 previousChapterThoughtSignature, sentSignature, calls,
                 scanErr, chapterCalls, generated, preambleWrites>>
  /\ UNCHANGED <<apiVars, webVars, pathVars>>
  /\ UNCHANGED <<configVars, chapterCountResult, abstractVars, codecVars>>

ChapterAttempt_CarryAttempt ==
  /\ pc = "Attempt"
  /\ attempt <= maxChapterRetries
  /\ \E r \in CallGeminiAPI(ChapterTexts, i + 1) :
       /\ chapter' = r
       /\ previousChapterThoughtSignature' = r.ThoughtSignature
       /\ IF ~r.Err
          THEN pc' = "RetryExit" /\ attempt' = attempt
          ELSE /\ attempt' = attempt + 1
               /\ pc' = IF attempt + 1 <= maxChapterRetries THEN "Attempt"
                        ELSE "RetryExit"
  /\ sentSignature' = previousChapterThoughtSignature
  /\ chapterCalls' = chapterCalls + 1
  /\ UNCHANGED <<err, existing, fileExists, file, opened, offset,
                 totalChapters, initial, state, i, calls,
                 generated, preambleWrites, scanErr>>
  /\ UNCHANGED <<apiVars, webVars, pathVars>>
  /\ UNCHANGED <<configVars, chapterCountResult, abstractVars, codecVars>>

\* one iteration of the retry loop: one call of the model
ChapterAttempt ==
  /\ pc = "Attempt"
  /\ attempt <= maxChapterRetries
  /\ \E r \in CallGeminiAPI(ChapterTexts, i + 1) :
       /\ chapter' = r
       /\ IF ~r.Err
          THEN pc' = "RetryExit" /\ attempt' = attempt
          ELSE /\ attempt' = attempt + 1
               /\ pc' = IF attempt + 1 <= maxChapterRetries THEN "Attempt"
                        ELSE "RetryExit"
  /\ sentSignature' = previousChapterThoughtSignature
  /\ chapterCalls' = chapterCalls + 1
  /\ UNCHANGED <<err, existing, fileExists, file, opened, offset,
                 totalChapters, initial, state, i, calls,
                 previousChapterThoughtSignature, generated, preambleWrites,
                 scanErr>>
  /\ UNCHANGED <<apiVars, webVars, pathVars>>
  /\ UNCHANGED <<configVars, chapterCountResult, abstractVars, codecVars>>

AfterRetries_Placeholder ==
  /\ pc = "RetryExit"
  /\ IF chapter.Err
     THEN /\ chapter' = NoChapter
          /\ UNCHANGED state
     ELSE /\ state' = AddUsage(state, chapter.InputTokens,
                               chapter.OutputTokens, chapter.Cost)
          /\ UNCHANGED chapter
  /\ generated' = Append(generated, i + 1)
  /\ pc' = "WriteChapterHeader"
  /\ UNCHANGED <<err, existing, fileExists, file, opened, offset,
                 totalChapters, initial, i, attempt,
                 previousChapterThoughtSignature, sentSignature, calls,
                 scanErr, chapterCalls, preambleWrites>>
  /\ UNCHANGED <<apiVars, webVars, pathVars>>
  /\ UNCHANGED <<configVars, chapterCountResult, abstractVars, codecVars>>

\* after the retry loop: log.Fatalf when the last attempt failed, otherwise
\* the chapter's usage is accumulated
AfterRetries ==
  /\ pc = "RetryExit"
  /\ IF chapter.Err
     THEN Fatal("chapterFailed") /\ UNCHANGED <<state, generated>>
     ELSE /\ state' = AddUsage(state, chapter.InputTokens,
                               chapter.OutputTokens, chapter.Cost)
          /\ generated' = Append(generated, i + 1)
          /\ pc' = "WriteChapterHeader"
          /\ err' = err
  /\ UNCHANGED <<existing, fileExists, file, opened, offset, totalChapters,
                 initial, i, attempt, chapter,
                 previousChapterThoughtSignature, sentSignature, calls,
                 chapterCalls, preambleWrites,
                 scanErr>>
  /\ UNCHANGED <<apiVars, webVars, pathVars>>
  /\ UNCHANGED <<configVars, chapterCountResult, abstractVars, codecVars>>

\* f.WriteString(chapterHeader)
WriteChapterHeader ==
  /\ pc = "WriteChapterHeader"
  /\ \/ /\ file' = WriteAt(file, offset, state.FileMode,
                           ChapterHeader(i + 1, "new"))
        /\ offset' = NewOffset(file, offset, state.FileMode,
                               ChapterHeader(i + 1, "new"))
        /\ pc' = "WriteChapterContent"
        /\ err' = err
     \/ Fatal("writeChapterHeader") /\ UNCHANGED <<file, offset>>
  /\ UNCHANGED <<existing, fileExists, opened, totalChapters, initial, state,
                 i, attempt, chapter, previousChapterThoughtSignature,
                 sentSignature, calls, chapterCalls, generated,
                 preambleWrites,
                 scanErr>>
  /\ UNCHANGED <<apiVars, webVars, pathVars>>
  /\ UNCHANGED <<configVars, chapterCountResult, abstractVars, codecVars>>

WriteChapterContent_ContextWithoutHeader ==
  /\ pc = "WriteChapterContent"
  /\ LET content == ChapterContent(chapter.GeneratedText, i + 1, "new")
     IN \/ /\ file' = WriteAt(file, offset, state.FileMode, content)
           /\ offset' = NewOffset(file, offset, state.FileMode, content)
           /\ state' = [state EXCEPT !.PreviousChapters = @ \o content]
           /\ previousChapterThoughtSignature' = chapter.ThoughtSignature
           /\ i' = i + 1
           /\ attempt' = 0          \* the iteration's locals go out of scope
           /\ chapter' = NoChapter
           /\ chapterCalls' = 0
           /\ pc' = "LoopHead"
           /\ err' = err
        \/ \E done \in 0..(Len(content) - 1) :
             /\ file' = WriteAt(file, offset, state.FileMode,
                                SubSeq(content, 1, done))
             /\ offset' = NewOffset(file, offset, state.FileMode,
                                    SubSeq(content, 1, done))
             /\ Fatal("writeChapterContent")
             /\ UNCHANGED <<state, previousChapterThoughtSignature, i,
                            attempt, chapter, chapterCalls>>
  /\ UNCHANGED <<existing, fileExists, opened, totalChapters, initial,
                 sentSignature, calls, generated, preambleWrites, scanErr>>
  /\ UNCHANGED <<apiVars, webVars, pathVars>>
  /\ UNCHANGED <<configVars, chapterCountResult, abstractVars, codecVars>>

\* f.WriteString(chapterContentToWrite) and the rest of the loop body.
\* A failing write may have written any proper prefix of the content.
WriteChapterContent ==
  /\ pc = "WriteChapterContent"
  /\ LET content == ChapterContent(chapter.GeneratedText, i + 1, "new")
     IN \/ /\ file' = WriteAt(file, offset, state.FileMode, content)
           /\ offset' = NewOffset(file, offset, state.FileMode, content)
           /\ state' = [state EXCEPT !.PreviousChapters =
                          @ \o ChapterHeader(i + 1, "new") \o content]
           /\ previousChapterThoughtSignature' = chapter.ThoughtSignature
           /\ i' = i + 1
           /\ attempt' = 0          \* the iteration's locals go out of scope
           /\ chapter' = NoChapter
           /\ chapterCalls' = 0
           /\ pc' = "LoopHead"
           /\ err' = err
        \/ \E done \in 0..(Len(content) - 1) :
             /\ file' = WriteAt(file, offset, state.FileMode,
                                SubSeq(content, 1, done))
             /\ offset' = NewOffset(file, offset, state.FileMode,
                                    SubSeq(content, 1, done))
             /\ Fatal("writeChapterContent")
             /\ UNCHANGED <<state, previousChapterThoughtSignature, i,
                            attempt, chapter, chapterCalls>>
  /\ UNCHANGED <<existing, fileExists, opened, totalChapters, initial,
                 sentSignature, calls, generated, preambleWrites, scanErr>>
  /\ UNCHANGED <<apiVars, webVars, pathVars>>
  /\ UNCHANGED <<configVars, chapterCountResult, abstractVars, codecVars>>

(* ------------------------ configuration step --------------------------- *)
\* what both Execute functions make of the resolved configuration
ConfigVerdict_Ignore(d) == "none"

ConfigVerdict(d) == IF d.Err THEN "config" ELSE "none"

\* aiEndpoint.LoadGeminiConfigWithFallback(*configPath), first step of both
\* subcommands
LoadConfig ==
  /\ pc = "LoadConfig"
  /\ details' = LoadGeminiConfigWithFallback(configPath, configFile, env)
  /\ IF ConfigVerdict(details') /= "none"
     THEN Fatal(ConfigVerdict(details'))
     ELSE /\ pc' = IF command = "story" THEN "ReadAbstract"
                   ELSE "PickChapters"
          /\ err' = err
  /\ UNCHANGED <<command, configPath, configFile, env>>
  /\ UNCHANGED <<apiVars, webVars, pathVars>>
  /\ UNCHANGED <<storyVars, chapterCountResult, abstractVars, codecVars>>

(* ------------------------- abstract command ---------------------------- *)
\* rand.Intn(n)
rand_Intn(n) == 0..(n - 1)

RandomNumChapters_Wide == {r + 20 : r \in rand_Intn(21 + 1)}

\* rand.Intn(21) + 20
RandomNumChapters == {r + 20 : r \in rand_Intn(21)}

\* numChapters := *chapters, a random number when it is 0
PickNumChapters ==
  /\ pc = "PickChapters"
  /\ numChapters' \in (IF chapters = 0 THEN RandomNumChapters ELSE {chapters})
  /\ pc' = "GenerateAbstract"
  /\ UNCHANGED <<err, chapters, promptChapters, abstract, signature,
                 accumulated, abstractCalls>>
  /\ UNCHANGED <<apiVars, webVars, pathVars>>
  /\ UNCHANGED <<storyVars, configVars, chapterCountResult, codecVars>>

\* the tokens and cost of one more call added to the accumulators
Accumulate(acc, r) ==
  [InputTokens |-> acc.InputTokens + r.InputTokens,
   OutputTokens |-> acc.OutputTokens + r.OutputTokens,
   Cost |-> acc.Cost + r.Cost]

\* generateAbstract and the accumulation of its usage
GenerateAbstract ==
  /\ pc = "GenerateAbstract"
  /\ promptChapters' = numChapters
  /\ abstractCalls' = abstractCalls + 1
  /\ \E sg \in AbstractSignatures : \E r \in CallGeminiAPI(AbstractTexts, sg) :
       IF r.Err
       THEN /\ Fatal("generateAbstract")
            /\ UNCHANGED <<abstract, signature, accumulated>>
       ELSE /\ abstract' = r.GeneratedText
            /\ signature' = r.ThoughtSignature
            /\ accumulated' = Accumulate(accumulated, r)
            /\ pc' = "SaveAbstract"
            /\ err' = err
  /\ UNCHANGED <<chapters, numChapters>>
  /\ UNCHANGED <<apiVars, webVars, pathVars>>
  /\ UNCHANGED <<storyVars, configVars, chapterCountResult, codecVars>>

\* finalOutputPath: --output, or abstract-<timestamp>.yaml
FinalOutputPath(path) == IF path = "" THEN ".yaml" ELSE path

\* os.WriteFile(outputPath, bytes, 0644): the file holds the bytes, or the
\* write fails after the file was left alone, emptied, or written in part
WriteFileOutcomes(f, bytes) ==
  {[Err |-> FALSE, file |-> FileOf(bytes)], [Err |-> TRUE, file |-> f]}
  \cup {[Err |-> TRUE, file |-> FileOf(p)] : p \in ProperPrefixes(bytes)}

\* file.WriteAbstractFile(finalOutputPath, abstract, signature)
SaveAbstract ==
  /\ pc = "SaveAbstract"
  /\ \E w \in WriteFileOutcomes(
               abstractFile,
               WriteAbstractFile(FinalOutputPath(outputPath), abstract,
                                 signature)) :
       /\ abstractFile' = w.file
       /\ IF w.Err THEN Fatal("saveAbstract")
          ELSE pc' = "CountChapters" /\ err' = err
  /\ UNCHANGED <<outputPath, readBack>>
  /\ UNCHANGED <<apiVars, webVars, pathVars>>
  /\ UNCHANGED <<storyVars, configVars, chapterCountResult, abstractVars>>

getChapterCountFromGemini ==
  {ChapterCountResult(r) : r \in CountResponses}

\* the chapter-count extraction of the abstract command and its
\* accumulation; then Execute returns nil
CountChapters_FatalOnError ==
  /\ pc = "CountChapters"
  /\ abstractCalls' = abstractCalls + 1
  /\ \E res \in getChapterCountFromGemini :
       /\ res.Count <= MaxTotal /\ res.Count >= 0 - MaxNeg
       /\ chapterCountResult' = res
       /\ IF res.Err /= "none"
          THEN Fatal("countChapters") /\ accumulated' = accumulated
          ELSE /\ accumulated' = Accumulate(accumulated, res)
               /\ pc' = "Done"
               /\ err' = err
  /\ UNCHANGED <<chapters, numChapters, promptChapters, abstract, signature>>
  /\ UNCHANGED <<apiVars, webVars, pathVars>>
  /\ UNCHANGED <<storyVars, configVars, codecVars>>

CountChapters ==
  /\ pc = "CountChapters"
  /\ abstractCalls' = abstractCalls + 1
  /\ \E res \in getChapterCountFromGemini :
       /\ res.Count <= MaxTotal /\ res.Count >= 0 - MaxNeg
       /\ chapterCountResult' = res
       /\ accumulated' = IF res.Err /= "none" THEN accumulated
                         ELSE Accumulate(accumulated, res)
  /\ pc' = "Done"
  /\ UNCHANGED <<err, chapters, numChapters, promptChapters, abstract,
                 signature>>
  /\ UNCHANGED <<apiVars, webVars, pathVars>>
  /\ UNCHANGED <<storyVars, configVars, codecVars>>

(* ------------------------ abstract file codec -------------------------- *)
\* WriteAbstractFile(outputPath, abstract, signature) on its own
CodecWrite ==
  /\ pc = "Codec"
  /\ \E w \in WriteFileOutcomes(
               abstractFile,
               WriteAbstractFile(outputPath, abstract, signature)) :
       /\ abstractFile' = w.file
       /\ pc' = IF w.Err THEN "WriteFailed" ELSE "Written"
  /\ UNCHANGED <<err, outputPath, readBack>>
  /\ UNCHANGED <<apiVars, webVars, pathVars>>
  /\ UNCHANGED <<storyVars, configVars, chapterCountResult, abstractVars>>

\* ReadAbstractFile(outputPath) on its own: os.ReadFile fails, or the
\* bytes of the file are decoded
CodecRead ==
  /\ pc \in {"Codec", "Written"}
  /\ \/ readBack' = ReadResult(<<>>, NoSignature, TRUE)
     \/ /\ abstractFile.exists
        /\ readBack' = ReadAbstractFile(outputPath, abstractFile.bytes)
  /\ pc' = IF pc = "Written" THEN "ReadBack" ELSE "ReadUser"
  /\ UNCHANGED <<err, outputPath, abstractFile>>
  /\ UNCHANGED <<apiVars, webVars, pathVars>>
  /\ UNCHANGED <<storyVars, configVars, chapterCountResult, abstractVars>>

(* --------------------------- one API call ------------------------------ *)
\* CallGeminiAPI from the token count to the return of the response
CallAPI ==
  /\ pc = "Call"
  /\ apiCall' = [apiCall EXCEPT !.response =
                   GeminiAPIResponse(apiCall.ModelName, apiCall.count,
                                     apiCall.gen)]
  /\ pc' = "Returned"
  /\ UNCHANGED <<err, storyVars, configVars, chapterCountResult, abstractVars,
                 codecVars, webVars, pathVars>>

(* --------------------------- the output path --------------------------- *)
\* finalOutputPath := determineOutputFilePath(cfg.AbstractFilePath,
\* cfg.OutputPathFlag)
DetermineOutputPath ==
  /\ pc = "Path"
  /\ \E t \in Timestamps :
       paths' = [paths EXCEPT !.finalOutputPath =
                   determineOutputFilePath(paths.abstractFilePath,
                                           paths.outputPathFlag, t)]
  /\ pc' = "PathDone"
  /\ UNCHANGED <<err, storyVars, configVars, chapterCountResult, abstractVars,
                 codecVars, apiVars, webVars>>

(* ------------------------------ web page ------------------------------- *)
\* every handler of the page leaves the commands' variables alone
PageOnly ==
  /\ pc = "Page"
  /\ UNCHANGED <<pc, err, storyVars, configVars, chapterCountResult,
                 abstractVars, codecVars, apiVars, pathVars>>

\* input listener of the API key field
InputApiKey ==
  /\ PageOnly
  /\ \E k \in {"", "key"} : page' = [page EXCEPT !.apiKey = k]

\* input listener of the story box: the user edits the story
InputStory ==
  /\ PageOnly
  /\ \E st \in Stories :
       page' = [page EXCEPT !.storyOutput = st,
                            !.revertLastParagraphBtnDisabled = (st = <<>>)]

\* clearAllContents, the user confirming
ClearAllContents ==
  /\ PageOnly
  /\ page' = [page EXCEPT !.storyOutput = <<>>,
                          !.revertLastParagraphBtnDisabled = TRUE,
                          !.errorShown = FALSE]

\* removeLastParagraph; a disabled button gets no click
RemoveLastParagraph ==
  /\ PageOnly
  /\ ~page.revertLastParagraphBtnDisabled
  /\ LET paragraphs == IF page.storyOutput = <<>> THEN <<>>
                       ELSE SubSeq(page.storyOutput, 1,
                                   Len(page.storyOutput) - 1)
     IN page' = [page EXCEPT !.storyOutput = paragraphs,
                             !.revertLastParagraphBtnDisabled
                               = (paragraphs = <<>>)]

GenerateParagraph_StaysEnabled ==
  /\ PageOnly
  /\ ~page.generateBtnDisabled
  /\ page.sent < MaxRequests
  /\ IF page.apiKey = ""
     THEN page' = [page EXCEPT !.errorShown = TRUE]
     ELSE page' = [page EXCEPT !.revertLastParagraphBtnDisabled = TRUE,
                               !.loadingHidden = FALSE,
                               !.errorShown = FALSE,
                               !.pending = @ + 1,
                               !.sent = @ + 1]

\* generateParagraph up to its await of fetch; a disabled button gets no
\* click
GenerateParagraph ==
  /\ PageOnly
  /\ ~page.generateBtnDisabled
  /\ page.sent < MaxRequests
  /\ IF page.apiKey = ""
     THEN page' = [page EXCEPT !.errorShown = TRUE]
     ELSE page' = [page EXCEPT !.generateBtnDisabled = TRUE,
                               !.revertLastParagraphBtnDisabled = TRUE,
                               !.loadingHidden = FALSE,
                               !.errorShown = FALSE,
                               !.pending = @ + 1,
                               !.sent = @ + 1]

\* generateParagraph from the settling of fetch to the end of finally
GenerateParagraphResume ==
  /\ PageOnly
  /\ page.pending > 0
  /\ \E outcome \in FetchOutcomes :
       /\ outcome = "text" => Len(page.storyOutput) < MaxParagraphs
       /\ page' =
            IF outcome = "text"
            THEN [page EXCEPT !.storyOutput = Append(@, "g"),
                              !.revertLastParagraphBtnDisabled = FALSE,
                              !.generateBtnDisabled = FALSE,
                              !.loadingHidden = TRUE,
                              !.pending = @ - 1]
            ELSE [page EXCEPT !.errorShown = TRUE,
                              !.revertLastParagraphBtnDisabled
                                = (page.storyOutput = <<>>),
                              !.generateBtnDisabled = FALSE,
                              !.loadingHidden = TRUE,
                              !.pending = @ - 1]

NextWeb ==
  \/ InputApiKey
  \/ InputStory
  \/ ClearAllContents
  \/ RemoveLastParagraph
  \/ GenerateParagraph
  \/ GenerateParagraphResume

Next ==
  \/ LoadConfig
  \/ PickNumChapters
  \/ GenerateAbstract
  \/ SaveAbstract
  \/ CountChapters
  \/ readAbstractAndDetermineTotalChapters
  \/ initializeStoryStateForResume
  \/ OpenOutputFile
  \/ writeInitialStoryHeader
  \/ StartChapterLoop
  \/ ChapterLoopHead
  \/ ChapterAttempt
  \/ AfterRetries
  \/ WriteChapterHeader
  \/ WriteChapterContent

Spec == Init /\ [][Next]_vars

\* every call of the model and every file operation returns, and the
\* process keeps running until Execute returns or log.Fatalf ends it
SpecLive == Spec /\ WF_vars(Next)

\* the configuration resolver over every configuration
SpecConfig == InitConfig /\ [][LoadConfig]_vars

\* WriteAbstractFile and ReadAbstractFile on their own
NextCodec ==
  \/ CodecWrite
  \/ CodecRead

SpecCodec == InitCodec /\ [][NextCodec]_vars

\* the cost computation of CallGeminiAPI on its own
SpecCost == InitCost /\ [][CallAPI]_vars

\* determineOutputFilePath on its own
SpecPath == InitPath /\ [][DetermineOutputPath]_vars

\* the web page and its user
SpecWeb == InitWeb /\ [][NextWeb]_vars

TypeOK ==
  /\ pc \in {"LoadConfig", "PickChapters", "GenerateAbstract",
             "SaveAbstract", "CountChapters", "ReadAbstract", "ResumeScan",
             "OpenFile", "WriteHeader", "StartLoop", "LoopHead", "Attempt",
             "RetryExit",
             "WriteChapterHeader", "WriteChapterContent", "Done", "Fatal",
             "Codec", "Written", "WriteFailed", "ReadBack", "ReadUser",
             "Call", "Returned", "Page", "Path", "PathDone"}
  /\ (pc = "Fatal") = (err /= "none")
  /\ chapterCalls \in 0..(maxChapterRetries + 1)
(* ------------------------- reading the file ---------------------------- *)
\* number of `## Chapter n` headers in f, for any n / for chapter m
HeaderCount(f) == Cardinality({j \in 1..Len(f) : f[j].k = "H"})

HeaderCountOf(f, m) ==
  Cardinality({j \in 1..Len(f) : f[j].k = "H" /\ f[j].n = m})

\* a complete block of chapter m written by run: header, text, terminator
CompleteBlockAt(f, j, m, run) ==
  /\ f[j] = Unit("H", m, run)
  /\ \E e \in (j + 1)..Len(f) :
       /\ f[e] = Unit("E", m, run)
       /\ \A q \in (j + 1)..(e - 1) : f[q] = Unit("W", m, run)

HasBlock(f, m, run) == \E j \in 1..Len(f) : CompleteBlockAt(f, j, m, run)

\* this run wrote something of chapter m
Written(f, m) == \E j \in 1..Len(f) : f[j].run = "new" /\ f[j].n = m

IsPrefix(a, b) == Len(a) <= Len(b) /\ SubSeq(b, 1, Len(a)) = a

\* the chapter numbers lo..hi in increasing order
Ascending(lo, hi) == [j \in 1..(hi - lo + 1) |-> lo + j - 1]

ChapterNumbers == 1..(MaxTotal + MaxScan + 1)

LoopStates ==
  {"LoopHead", "Attempt", "RetryExit", "WriteChapterHeader",
   "WriteChapterContent"}

\* the resume scan is over (whatever happened afterwards)
ScanDone ==
  /\ command = "story"
  /\ \/ pc \in {"OpenFile", "WriteHeader", "StartLoop", "Done"} \cup LoopStates
     \/ /\ pc = "Fatal"
        /\ err \notin {"config", "readAbstract", "planCall", "zeroChapters"}

(* ------------------------------ claims --------------------------------- *)

\* C1: a run that reaches Done with planned total T >= 1 and first new
\* chapter f <= T has generated exactly the chapters f..T, once each and in
\* order, and the output file then holds exactly T `## Chapter N` headers.
\* Stated for the runs whose resume-scan call failed, which start at
\* chapter 1 and write the preamble.
C1_LoopTermination ==
  (pc = "Done" /\ totalChapters >= 1
     /\ state.FirstNewChapter <= totalChapters /\ scanErr = "api")
    => /\ generated = Ascending(state.FirstNewChapter, totalChapters)
       /\ HeaderCount(file) = totalChapters

\* C2: failed attempts leave the accumulators alone, the successful attempt
\* adds exactly its own usage, and when the block of a chapter N that needed
\* a retry has been written the file holds exactly one `## Chapter N` header.
\* The last part is stated for the runs whose resume-scan call failed.
C2_RetryBound ==
  [][/\ pc = "Attempt" => state' = state
     /\ (pc = "RetryExit" /\ ~chapter.Err)
          => state' = AddUsage(state, chapter.InputTokens,
                               chapter.OutputTokens, chapter.Cost)
     /\ (pc = "WriteChapterContent" /\ pc' = "LoopHead" /\ attempt >= 1
           /\ scanErr = "api")
          => HeaderCountOf(file', i + 1) = 1]_vars

\* C3: a chapter gets at most 4 model calls; a call after the first one is
\* made only when the call before it failed, so none follows a success.
C3_AtMostFourAttempts ==
  /\ chapterCalls <= 4
  /\ (pc = "Attempt" /\ chapterCalls > 0) => chapter.Err
  /\ (pc \in {"WriteChapterHeader", "WriteChapterContent"}) => ~chapter.Err

C3_Witness == pc = "RetryExit" /\ chapterCalls = 4 /\ ~chapter.Err

C5_PlaceholderAndContinue ==
  [][(pc = "RetryExit" /\ chapter.Err) => pc' = "WriteChapterHeader"]_vars

\* C6: chapters are generated one at a time in increasing order, and the
\* block of chapter N is in the file before the first call for N+1: in
\* every state the run's complete blocks are exactly those of the chapters
\* f..i finished so far, and while a model call is pending nothing of the
\* chapter being generated, or of a later one, has been written.
C6_OneAtATime ==
  /\ \A m \in ChapterNumbers :
       /\ HasBlock(file, m, "new")
            <=> (m >= state.FirstNewChapter /\ m <= i)
       /\ (Written(file, m) /\ m > i)
            => (m = i + 1 /\ pc \in {"WriteChapterContent", "Fatal"})
  /\ \A j \in 1..Len(generated) : generated[j] = state.FirstNewChapter + j - 1
  /\ pc \in LoopStates
       => Len(generated) =
            i - state.FirstNewChapter + 1
              + (IF pc \in {"WriteChapterHeader", "WriteChapterContent"}
                 THEN 1 ELSE 0)

C6_Witness ==
  pc = "Attempt" /\ i >= state.FirstNewChapter /\ chapterCalls > 0
    /\ HasBlock(file, i, "new")

\* the chapters 1..k that f holds as complete blocks of an earlier run, when
\* f holds exactly k of them
CompleteOldChapters(f) ==
  Cardinality({m \in ChapterNumbers : HasBlock(f, m, "old")})

\* C7 as stated: an existing file with exactly k >= 1 complete sections
\* makes the scan set the first new chapter to k+1, and what follows keeps
\* the existing content.
C7_ResumeFromFileContent ==
  (ScanDone /\ CompleteOldChapters(existing) >= 1)
    => /\ state.FirstNewChapter = CompleteOldChapters(existing) + 1
       /\ IsPrefix(existing, file)

\* C7 amended: when the scan reply parses to k >= 1, the first new chapter
\* is k+1, the file is opened for appending, and the run only adds units
\* after the existing content.
C7_ResumeFromScanReply ==
  (ScanDone /\ state.ChaptersAlreadyWritten >= 1)
    => /\ state.FirstNewChapter = state.ChaptersAlreadyWritten + 1
       /\ state.FileMode = "append"
       /\ IsPrefix(existing, file)
       /\ \A j \in (Len(existing) + 1)..Len(file) : file[j].run = "new"

C7_Witness ==
  pc = "Done" /\ state.ChaptersAlreadyWritten >= 1
    /\ Len(file) > Len(existing)

\* C8: a resume scan that ends with an API error or an unparsable first
\* line never aborts the run and leaves the state of a fresh start: first
\* new chapter 1, 0 chapters written, empty context, no append mode; the
\* preamble is then written at the start of the file.
C8_ScanFailureStartsFresh ==
  /\ [][pc = "ResumeScan" => pc' = "OpenFile"]_vars
  /\ [](scanErr \in {"api", "parse"}
          => /\ calls.scan = 1
             /\ state.FirstNewChapter = 1
             /\ state.ChaptersAlreadyWritten = 0
             /\ state.FileMode = "create"
             /\ pc = "OpenFile" => state.PreviousChapters = <<>>
             /\ pc \in {"StartLoop", "Done"} \cup LoopStates
                  => /\ preambleWrites = 1
                     /\ IsPrefix(Preamble("new"), file))

C8_Witness ==
  scanErr = "parse" /\ pc = "Done" /\ Len(generated) >= 1

\* C9: a run that starts fresh (first new chapter 1) writes the preamble
\* exactly once, before any chapter block; a run that resumes never does.
C9_PreambleOnce ==
  /\ (state.FirstNewChapter = 1 /\ totalChapters >= 1
        /\ pc \in {"StartLoop", "Done"} \cup LoopStates)
       => (preambleWrites = 1 /\ IsPrefix(Preamble("new"), file))
  /\ state.FileMode = "append" => preambleWrites = 0
  /\ preambleWrites <= 1

\* C10: a planning call that returns 0 ends the run in Fatal at once: no
\* resume scan, no open or creation of the output file, no chapter call;
\* past the planning step the total is never 0.
C10_ZeroPlannedChapters ==
  /\ (command = "story" /\ pc \notin {"LoadConfig", "ReadAbstract", "Fatal"})
       => totalChapters /= 0
  /\ (pc = "Fatal" /\ err = "zeroChapters")
       => /\ calls = [plan |-> 1, scan |-> 0]
          /\ scanErr = "skipped"
          /\ ~opened
          /\ fileExists = (existing /= <<>>)
          /\ file = existing
          /\ chapterCalls = 0
          /\ generated = <<>>

C10_Witness == pc = "Fatal" /\ err = "zeroChapters" /\ fileExists

\* C11 as stated: a total-chapter-count reply that does not parse never
\* ends the invocation in failure, in the abstract command and in the
\* story command alike.
C11_ParseErrorNonFatal ==
  chapterCountResult.Err = "parse" => pc /= "Fatal"

\* C11 amended: a total-chapter-count reply that does not parse leaves the
\* abstract command successful with its saved file, and ends the story
\* command in failure before the resume scan and before the output file is
\* opened or changed.
C11_ParseErrorByCommand ==
  chapterCountResult.Err = "parse"
    => /\ command = "abstract"
            => /\ pc = "Done"
               /\ abstractFile
                    = FileOf(WriteAbstractFile(FinalOutputPath(outputPath),
                                               abstract, signature))
       /\ command = "story"
            => /\ pc = "Fatal" /\ err = "planCall"
               /\ calls = [plan |-> 1, scan |-> 0]
               /\ ~opened /\ file = existing

C11_Witness ==
  command = "story" /\ chapterCountResult.Err = "parse" /\ pc = "Fatal"
    /\ fileExists

\* the format the extension of a path selects in ReadAbstractFile ("none":
\* it selects no format)
SelectedFormat(path) ==
  IF ToLower(path) \in {".yaml", ".yml"} THEN "yaml"
  ELSE IF ToLower(path) = ".json" THEN "json"
  ELSE "none"

\* C12: a record written with WriteAbstractFile and read back from the same
\* path with ReadAbstractFile has the text and the token that were written,
\* when the path ends in .yaml or .yml and when it ends in .json.
C12_RoundTrip ==
  (pc = "ReadBack" /\ ~readBack.Err /\ SelectedFormat(outputPath) /= "none")
    => /\ readBack.rawAbstractContent = abstract
       /\ readBack.thoughtSignature = signature

\* whether the bytes deserialize in the format the path's extension selects
Deserializes(path, bytes) ==
  \/ SelectedFormat(path) = "yaml" /\ YamlUnmarshal(bytes).ok
  \/ SelectedFormat(path) = "json" /\ JsonUnmarshal(bytes).ok

\* C13: when ReadAbstractFile has read a file whose extension selects no
\* format, or whose bytes do not deserialize in the selected format, it
\* returns all the bytes as the text, the empty token and no error.
C13_RawFallback ==
  (pc \in {"ReadUser", "ReadBack"} /\ ~readBack.Err
     /\ ~Deserializes(outputPath, abstractFile.bytes))
    => readBack = ReadResult(abstractFile.bytes, NoSignature, FALSE)

C13_Witness ==
  pc = "ReadUser" /\ ~readBack.Err /\ SelectedFormat(outputPath) = "yaml"
    /\ ~YamlUnmarshal(abstractFile.bytes).ok /\ Len(abstractFile.bytes) >= 3
    /\ readBack.rawAbstractContent = abstractFile.bytes

\* the api_key of a config file that loaded ("" when none did)
LoadedFileKey ==
  IF configPath /= "" /\ configFile.status = "ok" THEN configFile.api_key
  ELSE ""

ConfigLoaded == configPath /= "" /\ configFile.status = "ok"

\* C14: the resolver fails exactly when the loaded file's api_key and the
\* environment variable are both empty; otherwise the key is non-empty, the
\* file's key when it has one and the environment's otherwise.
C14_APIKeyResolution ==
  pc /= "LoadConfig"
    => /\ details.Err = (LoadedFileKey = "" /\ Getenv(env) = "")
       /\ ~details.Err
            => /\ details.APIKey /= ""
               /\ details.APIKey = IF LoadedFileKey /= "" THEN LoadedFileKey
                                   ELSE Getenv(env)

C14_Witness ==
  pc /= "LoadConfig" /\ ~details.Err /\ LoadedFileKey = "file-key"
    /\ Getenv(env) = "env-key" /\ details.APIKey = "file-key"

C16_NoKeyNoCall ==
  (configPath = "" /\ ~env.set /\ pc /= "LoadConfig")
    => /\ pc = "Fatal" /\ err = "config"
       /\ abstractCalls = 0
       /\ calls = [plan |-> 0, scan |-> 0]
       /\ chapterCalls = 0 /\ generated = <<>>

C16_Witness ==
  command = "abstract" /\ configPath = "" /\ ~env.set
    /\ pc = "Fatal" /\ err = "config" /\ abstractCalls = 0

\* C17: the chapter count in the abstract generation prompt is --chapters
\* when that is not 0, and a number of 20..40 when it is 0.
C17_PromptChapterCount ==
  (command = "abstract" /\ abstractCalls >= 1)
    => /\ chapters /= 0 => promptChapters = chapters
       /\ chapters = 0 => promptChapters \in 20..40

C17_Witness ==
  command = "abstract" /\ abstractCalls >= 1 /\ chapters = 0
    /\ promptChapters = 40

\* C18: the abstract file is complete before the count extraction call is
\* made; the call, whatever it returns, leaves the file as it is and the
\* command then returns success.
C18_CountAfterSave ==
  /\ [][pc = "CountChapters"
          => /\ abstractCalls = 1
             /\ abstractFile
                  = FileOf(WriteAbstractFile(FinalOutputPath(outputPath),
                                             abstract, signature))
             /\ abstractFile' = abstractFile
             /\ pc' = "Done"]_vars
  /\ []((command = "abstract" /\ chapterCountResult.Err /= "skipped")
          => pc = "Done" /\ abstractCalls = 2)

C18_Witness ==
  command = "abstract" /\ pc = "Done" /\ chapterCountResult.Err = "api"
    /\ abstractFile.exists

\* C19: when the abstract command has saved the abstract file the abstract
\* text in it is not empty, and a count the extraction reports as parsed is
\* not negative.
C19_NonEmptyAbstract ==
  (command = "abstract" /\ pc \in {"CountChapters", "Done"})
    => /\ abstract /= <<>>
       /\ chapterCountResult.Err = "none" => chapterCountResult.Count >= 0

\* C20: the resume scan leaves, for a parsed count c > 0, c chapters
\* written, first new chapter c + 1, append mode and the existing file's
\* content as context; in every other case first new chapter 1, no append
\* mode and, until a chapter is written, an empty context.
C20_ResumeState ==
  /\ [][pc = "ResumeScan"
          => IF scanErr' = "none" /\ state'.ChaptersAlreadyWritten > 0
             THEN /\ state'.FirstNewChapter
                       = state'.ChaptersAlreadyWritten + 1
                  /\ state'.FileMode = "append"
                  /\ state'.PreviousChapters = existing
             ELSE /\ state'.FirstNewChapter = 1
                  /\ state'.FileMode = "create"
                  /\ state'.PreviousChapters = <<>>]_vars
  /\ [][pc /= "ResumeScan"
          => /\ state'.FirstNewChapter = state.FirstNewChapter
             /\ state'.FileMode = state.FileMode
             /\ state'.ChaptersAlreadyWritten
                  = state.ChaptersAlreadyWritten]_vars

C20_Witness ==
  pc = "OpenFile" /\ scanErr = "none" /\ state.ChaptersAlreadyWritten = 2
    /\ state.FirstNewChapter = 3 /\ state.FileMode = "append"
    /\ state.PreviousChapters = existing /\ Len(existing) > 3

\* C21: in every state of a story run the count of chapters already
\* written is at least 0, the first new chapter is at least 1, and the
\* first new chapter is the count plus one, whatever integer the resume
\* scan reply parses to.
C21_ResumeCounters ==
  command = "story"
    => /\ state.ChaptersAlreadyWritten >= 0
       /\ state.FirstNewChapter >= 1
       /\ state.FirstNewChapter = state.ChaptersAlreadyWritten + 1

\* the token the requests for chapter i + 1 must carry: none for the first
\* chapter the run generates, otherwise the one the successful call for
\* chapter i returned (the model signs chapter n's answer with n)
TokenDue ==
  IF i + 1 = state.FirstNewChapter THEN NoSignature ELSE i

\* C22: every attempt for the first chapter generated in a run carries the
\* empty token and every attempt for a later chapter n carries the token the
\* successful attempt for chapter n-1 returned; failed attempts change
\* nothing of it, so the retries of a chapter all carry the same token.
C22_TokenThreading ==
  /\ [][pc = "Attempt"
          => /\ sentSignature' = TokenDue
             /\ previousChapterThoughtSignature'
                  = previousChapterThoughtSignature
             /\ chapterCalls >= 1 => sentSignature' = sentSignature]_vars
  /\ [][(pc = "WriteChapterContent" /\ pc' = "LoopHead")
          => /\ ~chapter.Err
             /\ previousChapterThoughtSignature' = chapter.ThoughtSignature
             /\ previousChapterThoughtSignature' = i + 1]_vars
  /\ [](pc \in LoopStates => previousChapterThoughtSignature = TokenDue)

\* a retry of a later chapter carried the previous chapter's token
C22_Witness ==
  pc = "RetryExit" /\ ~chapter.Err /\ chapterCalls >= 2
    /\ i + 1 > state.FirstNewChapter /\ sentSignature = i
    /\ sentSignature /= NoSignature

IsNewChapterUnit(u) == u.run = "new" /\ u.k \in {"H", "W", "E"}

IsHeader(u) == u.k = "H"

\* the chapter blocks this run has put into f, in file order
NewChapterUnits(f) == SelectSeq(f, IsNewChapterUnit)

\* the chapter numbers of the headers of s, in order
HeaderNumbers(s) ==
  LET h == SelectSeq(s, IsHeader) IN [j \in 1..Len(h) |-> h[j].n]

\* the context the run started with: the existing file's text when it
\* resumes, nothing when it starts fresh
InitialContext == IF state.FileMode = "append" THEN existing ELSE <<>>

\* C23: when the prompt for a chapter is built the context is the initial
\* context followed by the blocks of the chapters generated earlier in the
\* run, in increasing order, each once and as written to the file; the
\* context only ever grows by appending.
C23_PreviousChaptersContext ==
  /\ []((command = "story" /\ pc \in {"LoopHead", "Attempt", "RetryExit", "Done"})
          => /\ state.PreviousChapters
                  = InitialContext \o NewChapterUnits(file)
             /\ HeaderNumbers(NewChapterUnits(file))
                  = Ascending(state.FirstNewChapter, i))
  /\ [][IsPrefix(state.PreviousChapters, state'.PreviousChapters)]_vars

\* the prompt for chapter 2 is built with the block of chapter 1, which has
\* text, in the context
C23_Witness ==
  pc = "Attempt" /\ i = 1 /\ state.FirstNewChapter = 1
    /\ Len(state.PreviousChapters) >= 3
    /\ state.PreviousChapters = NewChapterUnits(file)

\* the states of the story run in the order Execute goes through them
StoryStage(p) ==
  CASE p = "LoadConfig" -> 0
    [] p = "ReadAbstract" -> 1
    [] p = "ResumeScan" -> 2
    [] p = "OpenFile" -> 3
    [] p = "WriteHeader" -> 4
    [] p = "StartLoop" -> 5
    [] p \in LoopStates -> 6
    [] OTHER -> 7

\* the positions inside one iteration of the chapter loop, in order
IterationStep(p) ==
  CASE p = "LoopHead" -> 0
    [] p = "Attempt" -> 1
    [] p = "RetryExit" -> 2
    [] p = "WriteChapterHeader" -> 3
    [] p = "WriteChapterContent" -> 4
    [] OTHER -> 5

Terminal == {"Done", "Fatal"}

\* an upper bound of the model calls a story run has made: the planning
\* and scan calls, the calls for the chapter in hand, and four for every
\* chapter already generated
CallsMade ==
  calls.plan + calls.scan + 4 * Len(generated)
    + (IF \E j \in 1..Len(generated) : generated[j] = i + 1 THEN 0
       ELSE chapterCalls)

\* the chapters f..T there are to generate
ChaptersToGenerate ==
  IF totalChapters - state.FirstNewChapter + 1 > 0
  THEN totalChapters - state.FirstNewChapter + 1 ELSE 0

\* the parts of C24 that do not depend on how the chapters are counted: one
\* planning call, at most one scan call, at most four calls a chapter, calls
\* for the chapters f..T only, no step back to an earlier state or chapter,
\* and a terminal state in the end
C24_Progress ==
  /\ [](command = "story"
          => /\ calls.plan <= 1 /\ calls.scan <= 1 /\ chapterCalls <= 4
             /\ chapterCalls >= 1
                  => (i + 1 >= state.FirstNewChapter /\ i + 1 <= totalChapters))
  /\ [][command = "story"
          => /\ StoryStage(pc') >= StoryStage(pc)
             /\ i' >= i
             /\ (pc \in LoopStates /\ pc' \in LoopStates /\ i' = i)
                  => IterationStep(pc') >= IterationStep(pc)
             /\ (pc \in LoopStates /\ pc' \in LoopStates /\ i' /= i)
                  => (i' = i + 1 /\ pc' = "LoopHead")]_vars
  /\ (command = "story") ~> (pc \in Terminal)

\* C24 as stated: the run ends in Done or Fatal after at most
\* 2 + 4*(T - f + 1) model calls and never goes back.
C24_CallBound ==
  /\ C24_Progress
  /\ []((command = "story" /\ pc \in Terminal)
          => CallsMade <= 2 + 4 * (totalChapters - state.FirstNewChapter + 1))

\* C24 amended: the bound is 2 + 4*max(0, T - f + 1).
C24_CallBoundNoNegative ==
  /\ C24_Progress
  /\ [](command = "story" => CallsMade <= 2 + 4 * ChaptersToGenerate)

\* a run that made the planning call and the scan call and generated both
\* of two chapters
C24_Witness ==
  pc = "Done" /\ calls = [plan |-> 1, scan |-> 1] /\ totalChapters = 2
    /\ state.FirstNewChapter = 1 /\ Len(generated) = 2

\* the models whose prices depend on the size of the prompt
TieredModels ==
  {"gemini-2.5-pro", "gemini-1.5-pro", "gemini-pro", "gemini-3-pro-preview"}

\* the price table as the claim reads it: <<input, output>> per model and
\* tier, in 1e-2 USD per million tokens
PriceTable(modelName, tier) ==
  CASE modelName \in {"gemini-2.5-pro", "gemini-1.5-pro", "gemini-pro"} ->
         IF tier = "high" THEN <<250, 1500>> ELSE <<125, 1000>>
    [] modelName = "gemini-3-pro-preview" ->
         IF tier = "high" THEN <<400, 1800>> ELSE <<200, 1200>>
    [] modelName = "gemini-2.5-flash" -> <<30, 250>>
    [] modelName = "gemini-2.5-flash-lite" -> <<10, 40>>
    [] OTHER -> <<0, 0>>

\* C25: a successful call returns the cost inputTokens * inputPrice +
\* outputTokens * outputPrice at the prices of the model's table entry, the
\* high tier exactly when inputTokens > 200000 for a tiered model, both
\* prices 0 for a model not in the table; a failed token count or an
\* unknown model makes no error, only 0 input tokens and cost 0.
C25_CostFormula ==
  pc = "Returned"
    => LET r == apiCall.response
           tier == IF apiCall.ModelName \in TieredModels
                      /\ r.InputTokens > 200000
                   THEN "high" ELSE "low"
           price == PriceTable(apiCall.ModelName, tier)
       IN /\ r.Err = (apiCall.gen.status /= "ok")
          /\ r.InputTokens
               = IF apiCall.count.Err THEN 0 ELSE apiCall.count.TotalTokens
          /\ ~r.Err
               => /\ r.Cost = r.InputTokens * price[1] + r.OutputTokens * price[2]
                  /\ apiCall.ModelName = "gemini-1.5-flash" => r.Cost = 0

\* a tiered model just over the threshold is billed at the high tier
C25_Witness ==
  pc = "Returned" /\ apiCall.ModelName = "gemini-3-pro-preview"
    /\ ~apiCall.response.Err /\ apiCall.response.InputTokens = 200001
    /\ apiCall.response.OutputTokens = 2
    /\ apiCall.response.Cost = 200001 * 400 + 2 * 1800

\* C26: when the output file existed and the run started fresh (the resume
\* scan found no chapter or failed), the file at Done holds only what this
\* run wrote, the preamble and then the chapters 1..T: nothing of the old
\* file is left in it.
C26_NoStaleBytes ==
  (command = "story" /\ pc = "Done" /\ existing /= <<>>
     /\ state.FileMode = "create" /\ state.ChaptersAlreadyWritten = 0
     /\ totalChapters >= 1)
    => /\ \A j \in 1..Len(file) : file[j].run = "new"
       /\ IsPrefix(Preamble("new"), file)
       /\ HeaderNumbers(file) = Ascending(1, totalChapters)

\* C27: when the resume scan reports k >= T chapters already written, T
\* being the planned total, the run makes no chapter call, writes nothing
\* to the output file, leaves its content as it was and ends in Done (a
\* failure to open the file apart).
C27_NothingLeftToWrite ==
  (ScanDone /\ scanErr = "none"
     /\ state.ChaptersAlreadyWritten >= totalChapters)
    => /\ chapterCalls = 0 /\ generated = <<>>
       /\ file = existing
       /\ preambleWrites = 0
       /\ pc \notin {"Attempt", "RetryExit", "WriteChapterHeader",
                     "WriteChapterContent"}
       /\ pc = "Fatal" => err = "openFile"

\* the output path names the abstract file: the story command runs in the
\* directory the output path is relative to, so only an abstract file in
\* that directory can be the same file
SameFile(outputFilePath, abstractFilePath) == outputFilePath = abstractFilePath

\* C28: when --output is not given the output path derived from the
\* abstract file name is never the abstract file itself, whatever the name
\* (an "abstract-" prefix in other letter case and a name ending in .txt
\* included).
C28_OutputIsNotAbstract ==
  (pc = "PathDone" /\ paths.outputPathFlag = <<>>)
    => ~SameFile(paths.finalOutputPath, paths.abstractFilePath)

\* C29: in the web page at most one generation request is in flight; the
\* generate button is disabled from the sending of a request until it
\* completes, and every completion, whatever its outcome, enables it again.
C29_OneRequestInFlight ==
  /\ [](pc = "Page"
          => /\ page.pending <= 1
             /\ page.generateBtnDisabled = (page.pending = 1)
             /\ page.loadingHidden = (page.pending = 0))
  /\ [][page'.pending < page.pending
          => (~page'.generateBtnDisabled /\ page'.pending = 0)]_vars
  /\ [][page'.pending > page.pending
          => (~page.generateBtnDisabled /\ page'.generateBtnDisabled)]_vars

\* a second request was sent after the first one had completed
C29_Witness ==
  pc = "Page" /\ page.sent = 2 /\ page.pending = 1
    /\ page.generateBtnDisabled

\* C30: in the web page the revert button stays disabled while a request
\* is in flight, whatever the user does meanwhile (typing in the story box,
\* clear all), so no paragraph is removed between the sending of a request
\* and the handling of its answer.
C30_RevertDisabledInFlight ==
  (pc = "Page" /\ page.pending > 0) => page.revertLastParagraphBtnDisabled
====
